---- MODULE Spec2Model ----
(***************************************************************************)
(* spinn_blink: a SpiNNaker application that drives the chip's LED with a  *)
(* software PWM pattern whose duty cycle is the first word of SDRAM.       *)
(*                                                                         *)
(* The model follows spinnaker_app/spinn_blink.c: c_main configures the    *)
(* timer, registers on_timer_tick and starts the run loop; on_timer_tick   *)
(* increments and masks the counter, loads *led_value once and makes one   *)
(* spin1_led_control call.  The word behind led_value is written by an     *)
(* external host at arbitrary times.                                       *)
(***************************************************************************)
EXTENDS Integers, Sequences, FiniteSets, TLC

VARIABLES
    pc,           \* position of c_main: "set_timer", "callback_on", "start", "running"
    timer_tick,   \* period handed to spin1_set_timer_tick (0: not configured)
    callback,     \* registration made by spin1_callback_on (NoCallback: none)
    counter,      \* uint counter, a 32-bit word <<high half, low half>>
    led_value,    \* the 32-bit word *led_value at SDRAM_BASE_UNBUF
    led_calls,    \* spin1_led_control calls made by the latest handler invocation
    duty_read,    \* the value the latest handler invocation loaded from *led_value
    prev_read,    \* the value the invocation before that loaded
    prev_counter, \* counter before the latest handler invocation
    nTicks,       \* handler invocations so far, saturating at MaxTicks
    last,         \* the latest step: "init", "c_main", "tick", "write", "mark"
    winTicks,     \* ticks in the current period window (0: no window open)
    winDuty,      \* duty value read on every tick of the window
    winOn,        \* ticks of the window that told the LED on
    winOff,       \* ticks of the window that told the LED off
    winOnAt,      \* counter values compared on the ON ticks of the window
    anchor,       \* counter value recorded by the latest Mark
    since,        \* handler invocations since the latest Mark (NoMark: none)
    wr_target,    \* the word an external write in flight will leave (NoWrite: none)
    anchorOut,    \* spin1_led_control calls of the latest invocation, as of the latest Mark
    onSince,      \* whether an invocation since the latest Mark told the LED on
    winRises,     \* ticks of the window that told the LED on right after a tick that told it off
    winFalls      \* ticks of the window that told the LED off right after a tick that told it on

vars == <<pc, timer_tick, callback, counter, led_value, led_calls, duty_read,
          prev_read, prev_counter, nTicks, last, winTicks, winDuty, winOn,
          winOff, winOnAt, anchor, since, wr_target, anchorOut, onSince,
          winRises, winFalls>>

(***************************************************************************)
(* Program constants                                                       *)
(***************************************************************************)
BLINK_LED == 0
CounterMask == 255
TimerTickPeriod == 10
TimerTickPriority == 3
HalfMod == 65536
Period == CounterMask + 1

(***************************************************************************)
(* A uint is 32 bits wide.  It is kept as <<high 16 bits, low 16 bits>>,   *)
(* so that every value of the word, 0xFFFFFFFF included, is represented.   *)
(***************************************************************************)
Hi(w) == w[1]
Lo(w) == w[2]
Word(n) == <<n \div HalfMod, n % HalfMod>>
WordMax == <<HalfMod - 1, HalfMod - 1>>

(***************************************************************************)
(* Bounds of the model                                                     *)
(***************************************************************************)
MaxTicks == 300

DutyValues == {Word(0), Word(1), Word(128), Word(255), Word(256), WordMax}

NoCallback == [event |-> "none", handler |-> "none", priority |-> 0]
NoRead == <<-1, -1>>
NoMark == 0 - 1
NoWrite == <<-1, -1>>

(***************************************************************************)
(* The statements of on_timer_tick                                         *)
(***************************************************************************)
RECURSIVE BitAnd(_, _)
BitAnd(a, b) ==
    IF a = 0 \/ b = 0 THEN 0
    ELSE (a % 2) * (b % 2) + 2 * BitAnd(a \div 2, b \div 2)

LED_ON(n) == [op |-> "LED_ON", led |-> n]
LED_OFF(n) == [op |-> "LED_OFF", led |-> n]

\* Variant of the increment: it is lost when the duty word was written since
\* the invocation before.
IncLost(c) ==
    IF duty_read # NoRead /\ led_value # duty_read THEN c
    ELSE IF Lo(c) + 1 < HalfMod THEN <<Hi(c), Lo(c) + 1>>
    ELSE <<(Hi(c) + 1) % HalfMod, 0>>

\* counter += 1 on a uint: the carry runs into the high half and out of the word
Inc(c) ==
    IF Lo(c) + 1 < HalfMod THEN <<Hi(c), Lo(c) + 1>>
    ELSE <<(Hi(c) + 1) % HalfMod, 0>>

\* Variants of the masking statement: a 7-bit mask, and no mask at all.
WrapSeven(c) == <<0, BitAnd(Lo(c), 127)>>

WrapNone(c) == c

\* Variant of the masking statement: a 9-bit mask.
WrapNine(c) == <<0, BitAnd(Lo(c), 511)>>

\* counter &= 0xFF
Wrap(c) == <<BitAnd(Hi(c), Hi(Word(CounterMask))), BitAnd(Lo(c), Lo(Word(CounterMask)))>>

\* Variant of the load: the value loaded by the first invocation is kept.
LoadCached == IF duty_read = NoRead THEN led_value ELSE duty_read

\* Variant of the load: the largest value loaded so far is kept.
LoadLatched ==
    IF duty_read = NoRead THEN led_value
    ELSE IF Hi(duty_read) < Hi(led_value)
            \/ (Hi(duty_read) = Hi(led_value) /\ Lo(duty_read) < Lo(led_value))
         THEN led_value
         ELSE duty_read

\* the volatile load of *led_value: one load per invocation
LoadLedValue == led_value

\* Variants of the comparison: strict; duty 0 meaning fully off; the duty
\* value narrowed to 8 bits before it is compared.
CompareStrict(c, v) == Hi(c) < Hi(v) \/ (Hi(c) = Hi(v) /\ Lo(c) < Lo(v))

CompareZeroOff(c, v) ==
    /\ v # Word(0)
    /\ Hi(c) < Hi(v) \/ (Hi(c) = Hi(v) /\ Lo(c) <= Lo(v))

CompareNarrow(c, v) == Hi(c) = 0 /\ Lo(c) <= Lo(v) % 256

\* Variant of the comparison with hysteresis: once on, the LED stays on for
\* one counter value more.
CompareSticky(c, v) ==
    \/ Hi(c) < Hi(v) \/ (Hi(c) = Hi(v) /\ Lo(c) <= Lo(v))
    \/ led_calls = <<LED_ON(BLINK_LED)>> /\ Hi(c) = Hi(v) /\ Lo(c) = Lo(v) + 1

\* Variant of the comparison: the two words compared as signed ints.
CompareSigned(c, v) ==
    LET neg(w) == Hi(w) >= HalfMod \div 2
    IN  IF neg(c) # neg(v) THEN neg(c)
        ELSE Hi(c) < Hi(v) \/ (Hi(c) = Hi(v) /\ Lo(c) <= Lo(v))

\* Variant of the comparison: the operands exchanged.
CompareInverted(c, v) == Hi(v) < Hi(c) \/ (Hi(v) = Hi(c) /\ Lo(v) <= Lo(c))

\* counter <= (*led_value), an unsigned comparison of two words
Compare(c, v) == Hi(c) < Hi(v) \/ (Hi(c) = Hi(v) /\ Lo(c) <= Lo(v))

\* Variant: the comparison placed before the increment.
ComparedBefore(old, new) == old

\* the counter read by the comparison is the one lines 22-23 have just stored
Compared(old, new) == new

\* Variants of the branch: the two calls exchanged; the else branch missing.
LedCallsSwapped(on) == IF on THEN <<LED_OFF(BLINK_LED)>> ELSE <<LED_ON(BLINK_LED)>>

LedCallsNoElse(on) == IF on THEN <<LED_ON(BLINK_LED)>> ELSE <<>>

\* the if/else around spin1_led_control
LedCalls(on) == IF on THEN <<LED_ON(BLINK_LED)>> ELSE <<LED_OFF(BLINK_LED)>>

\* Variant: the handler clears the word once it has used it.
StoreCleared == Word(0)

\* led_value points to const: the handler leaves the word as it is
StoreAfterTick == led_value

Min(a, b) == IF a < b THEN a ELSE b

on_timer_tick ==
    /\ pc = "running"
    /\ callback.handler = "on_timer_tick"
    /\ timer_tick > 0
    /\ LET c == Wrap(Inc(counter))
           v == LoadLedValue
           calls == LedCalls(Compare(Compared(counter, c), v))
           on == IF calls # <<>> /\ calls[Len(calls)].op = "LED_ON" THEN 1 ELSE 0
           off == IF calls # <<>> /\ calls[Len(calls)].op = "LED_OFF" THEN 1 ELSE 0
           open == counter = Word(0)
           rise == IF on = 1 /\ led_calls = <<LED_OFF(BLINK_LED)>> THEN 1 ELSE 0
           fall == IF off = 1 /\ led_calls = <<LED_ON(BLINK_LED)>> THEN 1 ELSE 0
           extend == ~open /\ winTicks \in 1..(Period - 1) /\ v = winDuty
       IN  /\ counter' = c
           /\ duty_read' = v
           /\ prev_read' = duty_read
           /\ led_calls' = calls
           /\ led_value' = StoreAfterTick
           /\ prev_counter' = counter
           /\ nTicks' = Min(nTicks + 1, MaxTicks)
           /\ winTicks' = IF open THEN 1 ELSE IF extend THEN winTicks + 1 ELSE 0
           /\ winDuty' = IF open \/ extend THEN v ELSE Word(0)
           /\ winOn' = IF open THEN on ELSE IF extend THEN winOn + on ELSE 0
           /\ winOff' = IF open THEN off ELSE IF extend THEN winOff + off ELSE 0
           /\ winOnAt' = IF open THEN (IF on = 1 THEN {c} ELSE {})
                         ELSE IF extend
                              THEN (IF on = 1 THEN winOnAt \cup {c} ELSE winOnAt)
                              ELSE {}
           /\ winRises' = IF open THEN rise ELSE IF extend THEN winRises + rise ELSE 0
           /\ winFalls' = IF open THEN fall ELSE IF extend THEN winFalls + fall ELSE 0
           /\ since' = IF since = NoMark THEN NoMark ELSE Min(since + 1, Period + 1)
           /\ onSince' = IF since = NoMark THEN FALSE ELSE (onSince \/ on = 1)
    /\ last' = "tick"
    /\ UNCHANGED <<pc, timer_tick, callback, anchor, wr_target, anchorOut>>

(***************************************************************************)
(* c_main                                                                  *)
(***************************************************************************)
Observers == <<duty_read, prev_read, prev_counter, nTicks, winTicks, winDuty,
               winOn, winOff, winOnAt, anchor, since, anchorOut, onSince,
               winRises, winFalls>>

set_timer_tick ==
    /\ pc = "set_timer"
    /\ timer_tick' = TimerTickPeriod
    /\ pc' = "callback_on"
    /\ last' = "c_main"
    /\ UNCHANGED <<callback, counter, led_value, led_calls, wr_target>>
    /\ UNCHANGED Observers

callback_on ==
    /\ pc = "callback_on"
    /\ callback' = [event |-> "TIMER_TICK", handler |-> "on_timer_tick",
                    priority |-> TimerTickPriority]
    /\ pc' = "start"
    /\ last' = "c_main"
    /\ UNCHANGED <<timer_tick, counter, led_value, led_calls, wr_target>>
    /\ UNCHANGED Observers

\* Variant of c_main: the run loop is started before the handler is registered.
start_unregistered ==
    /\ pc = "callback_on"
    /\ pc' = "running"
    /\ last' = "c_main"
    /\ UNCHANGED <<timer_tick, callback, counter, led_value, led_calls, wr_target>>
    /\ UNCHANGED Observers

start ==
    /\ pc = "start"
    /\ pc' = "running"
    /\ last' = "c_main"
    /\ UNCHANGED <<timer_tick, callback, counter, led_value, led_calls, wr_target>>
    /\ UNCHANGED Observers

(***************************************************************************)
(* The external writer of the first word of SDRAM                          *)
(***************************************************************************)
ExternalWrite ==
    /\ wr_target = NoWrite
    /\ \E v \in DutyValues : led_value' = v
    /\ last' = "write"
    /\ UNCHANGED <<pc, timer_tick, callback, counter, led_calls, wr_target>>
    /\ UNCHANGED Observers

\* The four bytes of a word, least significant first, and the word of four bytes.
Bytes(w) == <<Lo(w) % 256, Lo(w) \div 256, Hi(w) % 256, Hi(w) \div 256>>
OfBytes(b) == <<b[3] + 256 * b[4], b[1] + 256 * b[2]>>

\* The word while a write of v is in flight: the bytes in done are already
\* those of v, the others still those of the old word w.
Mix(w, v, done) ==
    OfBytes([i \in 1..4 |-> IF i \in done THEN Bytes(v)[i] ELSE Bytes(w)[i]])

\* The values a write that is not atomic moves between.
TornValues == {Word(128), Word(256)}

\* A write that is not atomic: some of its bytes land ...
ExternalWriteTorn ==
    /\ \E v \in TornValues, done \in SUBSET (1..4) :
            /\ wr_target \in {NoWrite, v}
            /\ done # 1..4
            /\ led_value' = Mix(led_value, v, done)
            /\ wr_target' = v
    /\ last' = "write"
    /\ UNCHANGED <<pc, timer_tick, callback, counter, led_calls>>
    /\ UNCHANGED Observers

\* ... and then the rest: the word is the written value and stays so.
ExternalWriteFinish ==
    /\ wr_target # NoWrite
    /\ led_value' = wr_target
    /\ wr_target' = NoWrite
    /\ last' = "write"
    /\ UNCHANGED <<pc, timer_tick, callback, counter, led_calls>>
    /\ UNCHANGED Observers

(***************************************************************************)
(* An observer that records the counter, to compare it with later values   *)
(***************************************************************************)
Mark ==
    /\ pc = "running"
    /\ anchor' = counter
    /\ anchorOut' = led_calls
    /\ onSince' = FALSE
    /\ since' = 0
    /\ last' = "mark"
    /\ UNCHANGED <<pc, timer_tick, callback, counter, led_value, led_calls,
                   duty_read, prev_read, prev_counter, nTicks, winTicks,
                   winDuty, winOn, winOff, winOnAt, wr_target, winRises,
                   winFalls>>

\* The same observer, started only at a few phases of the counter and only
\* when it is not already observing a stretch of 256 invocations.
PhaseValues == {Word(0), Word(1), Word(128), Word(255)}

MarkPhase ==
    /\ counter \in PhaseValues
    /\ since \in {NoMark, Period + 1}
    /\ Mark

\* The external writer, writing a dim, a medium and the largest value.
SweepValues == {Word(0), Word(128), WordMax}

ExternalWriteSweep ==
    /\ led_value' \in SweepValues
    /\ ExternalWrite

InitCommon ==
    /\ pc = "set_timer"
    /\ timer_tick = 0
    /\ callback = NoCallback
    /\ counter = Word(0)
    /\ led_calls = <<>>
    /\ duty_read = NoRead
    /\ prev_read = NoRead
    /\ prev_counter = Word(0)
    /\ nTicks = 0
    /\ last = "init"
    /\ winTicks = 0
    /\ winDuty = Word(0)
    /\ winOn = 0
    /\ winOff = 0
    /\ winOnAt = {}
    /\ anchor = Word(0)
    /\ since = NoMark
    /\ wr_target = NoWrite
    /\ anchorOut = <<>>
    /\ onSince = FALSE
    /\ winRises = 0
    /\ winFalls = 0

Init ==
    /\ InitCommon
    /\ led_value \in DutyValues

Next ==
    \/ set_timer_tick
    \/ callback_on
    \/ start
    \/ on_timer_tick
    \/ ExternalWrite

Spec == Init /\ [][Next]_vars

\* The program with the duty word left alone and the Mark observer added.
InitMark ==
    /\ InitCommon
    /\ led_value \in {Word(1), Word(128)}

NextMark ==
    \/ set_timer_tick
    \/ callback_on
    \/ start
    \/ on_timer_tick
    \/ Mark

SpecMark == InitMark /\ [][NextMark]_vars

\* The program with an external writer whose writes are not atomic.
InitTorn ==
    /\ InitCommon
    /\ led_value \in TornValues

NextTorn ==
    \/ set_timer_tick
    \/ callback_on
    \/ start
    \/ on_timer_tick
    \/ ExternalWriteTorn
    \/ ExternalWriteFinish

SpecTorn == InitTorn /\ [][NextTorn]_vars

\* The program with the external writer and the observer of stretches of
\* 256 invocations.
InitSweep ==
    /\ InitCommon
    /\ led_value \in SweepValues

NextSweep ==
    \/ set_timer_tick
    \/ callback_on
    \/ start
    \/ on_timer_tick
    \/ ExternalWriteSweep
    \/ MarkPhase

SpecSweep == InitSweep /\ [][NextSweep]_vars

(***************************************************************************)
(* Vocabulary of the properties                                            *)
(***************************************************************************)
TickDone == last = "tick"
ToldOn == led_calls = <<LED_ON(BLINK_LED)>>
ToldOff == led_calls = <<LED_OFF(BLINK_LED)>>
IsByte(w) == Hi(w) = 0 /\ Lo(w) \in 0..255
WordLess(a, b) == Hi(a) < Hi(b) \/ (Hi(a) = Hi(b) /\ Lo(a) < Lo(b))
AtMost(a, b) == ~WordLess(b, a)
WindowDone == winTicks = Period

\* C1: after every invocation of on_timer_tick the one call made is LED_ON
\* exactly when the counter, as incremented and masked by this invocation,
\* is at most the value this invocation loaded from *led_value, and LED_OFF
\* exactly when it is greater.
C1_OutputIsComparison ==
    TickDone =>
        /\ ToldOn <=> AtMost(counter, duty_read)
        /\ ToldOff <=> WordLess(duty_read, counter)

C1_Witness ==
    /\ TickDone
    /\ duty_read = Word(128)
    /\ counter = Word(129)
    /\ prev_counter = Word(128)
    /\ ToldOff

\* C2: when 256 consecutive invocations, the first of them entered with
\* counter = 0, all load the same duty value d in 0..255, exactly d + 1 of
\* them tell the LED on and exactly 255 - d tell it off, and the ON ticks
\* are those that compared the counter values 0..d.
C2_OnCountPerPeriod ==
    (WindowDone /\ IsByte(winDuty)) =>
        /\ winOn = Lo(winDuty) + 1
        /\ winOff = 255 - Lo(winDuty)
        /\ winOnAt = {Word(k) : k \in 0..Lo(winDuty)}

C2_Witness ==
    /\ WindowDone
    /\ winDuty = Word(128)
    /\ winOn = 129
    /\ winOff = 127
    /\ winOnAt = {Word(k) : k \in 0..128}

\* C3: the counter starts at 0; a step of on_timer_tick leaves it at
\* (its value before the step + 1) mod 256; every other step leaves it
\* unchanged.
C3_CounterStep ==
    /\ counter = Word(0)
    /\ [][/\ last' = "tick" =>
                /\ Hi(counter') = 0
                /\ Lo(counter') = (Hi(counter) * HalfMod + Lo(counter) + 1) % 256
          /\ last' # "tick" => counter' = counter]_vars

C3_Witness ==
    /\ TickDone
    /\ prev_counter = Word(255)
    /\ counter = Word(0)
    /\ nTicks = 256

\* C4: 256 invocations after any point the counter has the value it had at
\* that point, and 1 to 255 invocations after it the counter has another value.
C4_ModularClosure ==
    since # NoMark =>
        /\ since = Period => counter = anchor
        /\ since \in 1..(Period - 1) => counter # anchor

C4_Witness ==
    /\ since = Period
    /\ anchor = Word(77)
    /\ counter = anchor

\* C5: an invocation entered with *led_value different from the value the
\* invocation before it loaded (or with no earlier invocation) loads the
\* current word and decides ON or OFF from it.
C5_FreshRead ==
    [][(last' = "tick" /\ led_value # duty_read) =>
            /\ duty_read' = led_value
            /\ (led_calls' = <<LED_ON(BLINK_LED)>>) <=> AtMost(counter', led_value)
            /\ (led_calls' = <<LED_OFF(BLINK_LED)>>) <=> WordLess(led_value, counter')]_vars

C5_Witness ==
    /\ TickDone
    /\ prev_read = Word(1)
    /\ duty_read = Word(255)
    /\ counter = Word(200)
    /\ ToldOn

\* C6: an invocation that loads the duty value 0 tells the LED on exactly
\* when the counter it compares is 0; over a period of 256 invocations that
\* all load 0, one tick is ON, the one comparing 0, and 255 are OFF.
C6_DutyZero ==
    /\ (TickDone /\ duty_read = Word(0)) =>
            /\ ToldOn <=> counter = Word(0)
            /\ ToldOff <=> counter # Word(0)
    /\ (WindowDone /\ winDuty = Word(0)) =>
            /\ winOn = 1
            /\ winOff = Period - 1
            /\ winOnAt = {Word(0)}

C6_Witness ==
    /\ WindowDone
    /\ winDuty = Word(0)
    /\ winOn = 1
    /\ TickDone
    /\ counter = Word(0)
    /\ ToldOn

\* C7: an invocation that loads the duty value 255 tells the LED on, never
\* off; a period of 256 invocations that all load 255 has 256 ON ticks.
C7_DutyFull ==
    /\ (TickDone /\ duty_read = Word(255)) => (ToldOn /\ ~ToldOff)
    /\ (WindowDone /\ winDuty = Word(255)) => (winOn = Period /\ winOff = 0)

C7_Witness ==
    /\ WindowDone
    /\ winDuty = Word(255)
    /\ winOn = Period
    /\ prev_counter = Word(255)
    /\ ToldOn

\* C8: an invocation that loads a duty value of 256 or more, up to the
\* largest word, tells the LED on, never off; a period of 256 invocations
\* that all load such a value has 256 ON ticks, as a period at 255 has.
C8_DutyAboveRange ==
    /\ (TickDone /\ duty_read # NoRead /\ ~IsByte(duty_read)) => (ToldOn /\ ~ToldOff)
    /\ (WindowDone /\ ~IsByte(winDuty)) => (winOn = Period /\ winOff = 0)

C8_Witness ==
    /\ WindowDone
    /\ winDuty = WordMax
    /\ winOn = Period
    /\ TickDone
    /\ ToldOn

\* C9: a step of on_timer_tick makes exactly one spin1_led_control call,
\* LED_ON or LED_OFF of the blink LED, and apart from the counter changes
\* nothing of the program's state: not the duty word, not the timer period,
\* not the callback registration, not the position of c_main.
C9_OneCallPerTick ==
    [][last' = "tick" =>
            /\ Len(led_calls') = 1
            /\ led_calls'[1] \in {LED_ON(BLINK_LED), LED_OFF(BLINK_LED)}
            /\ UNCHANGED <<led_value, timer_tick, callback, pc>>]_vars

C9_Witness ==
    /\ TickDone
    /\ Len(led_calls) = 1
    /\ ToldOff
    /\ nTicks = 2

\* C10: the duty word changes only in a step of the external writer.
C10_HandlerNeverWrites ==
    [][led_value' # led_value => last' = "write"]_vars

C10_Witness ==
    /\ TickDone
    /\ WindowDone
    /\ winDuty = Word(1)
    /\ led_value = Word(1)

\* C11: the output of the k-th invocation is a function of k and of the duty
\* value that invocation loaded, and of nothing else: LED_ON exactly when
\* k mod 256 is at most that value.  Two runs with the same duty values at
\* the same ticks therefore make the same calls.
C11_OutputFromTickAndDuty ==
    (TickDone /\ nTicks < MaxTicks) =>
        /\ ToldOn <=> AtMost(Word(nTicks % 256), duty_read)
        /\ ToldOff <=> WordLess(duty_read, Word(nTicks % 256))

C11_Witness ==
    /\ TickDone
    /\ nTicks = 258
    /\ prev_read = WordMax
    /\ duty_read = Word(1)
    /\ ToldOff

\* C12: under a writer whose writes are not atomic, an invocation that runs
\* while no write is in flight decides from the word as written, whatever
\* mixed word earlier invocations loaded: LED_ON exactly when the counter is
\* at most the stable word.  Every invocation, also one that loads a mixed
\* word, leaves the counter at its value before + 1 mod 256.
C12_TornReadIsTransient ==
    /\ (TickDone /\ wr_target = NoWrite) =>
            /\ ToldOn <=> AtMost(counter, led_value)
            /\ ToldOff <=> WordLess(led_value, counter)
    /\ TickDone =>
            /\ Hi(counter) = 0
            /\ Lo(counter) = (Lo(prev_counter) + 1) % 256

C12_Witness ==
    /\ TickDone
    /\ wr_target = NoWrite
    /\ prev_read = Word(384)
    /\ duty_read = Word(128)
    /\ led_value = Word(128)
    /\ counter = Word(200)
    /\ ToldOff

C14_StartupOrder ==
    /\ pc = "set_timer" /\ timer_tick = 0 /\ callback = NoCallback /\ nTicks = 0
    /\ [][/\ pc' # pc =>
                \/ /\ pc = "set_timer" /\ pc' = "callback_on"
                   /\ timer_tick' = TimerTickPeriod /\ callback' = callback
                \/ /\ pc = "callback_on" /\ pc' = "start"
                   /\ callback'.event = "TIMER_TICK"
                   /\ callback'.handler = "on_timer_tick"
                   /\ callback'.priority = TimerTickPriority
                   /\ timer_tick' = timer_tick
                \/ /\ pc = "start" /\ pc' = "running"
                   /\ timer_tick' = timer_tick /\ callback' = callback
          /\ pc' = pc => (timer_tick' = timer_tick /\ callback' = callback)
          /\ pc = "running" => pc' = "running"
          /\ (last' = "tick" \/ nTicks' # nTicks \/ led_calls' # led_calls) =>
                (pc = "running" /\ callback.handler = "on_timer_tick"
                    /\ timer_tick = TimerTickPeriod)]_vars

C14_Witness ==
    /\ pc = "running"
    /\ timer_tick = TimerTickPeriod
    /\ callback.handler = "on_timer_tick"
    /\ callback.priority = TimerTickPriority
    /\ TickDone
    /\ nTicks = 1

\* C15: in every state, so whenever it is compared or seen between two
\* invocations, the counter is a word with a value in 0..255, although it is
\* a full-width word and the handler increments it (to 256, from 255)
\* before it masks it.
C15_CounterIsEightBit ==
    /\ IsByte(counter)
    /\ IsByte(prev_counter)
    /\ TickDone => (counter = Word(0) <=> prev_counter = Word(255))

C15_Witness ==
    /\ TickDone
    /\ prev_counter = Word(255)
    /\ Inc(prev_counter) = Word(256)
    /\ ~IsByte(Inc(prev_counter))
    /\ counter = Word(0)

\* C16: with the duty word left alone, the call made by an invocation is the
\* call made by the invocation 256 ticks before it.
C16_PatternRepeats ==
    (since = Period /\ anchorOut # <<>>) => led_calls = anchorOut

C16_Witness ==
    /\ since = Period
    /\ anchorOut = <<LED_ON(BLINK_LED)>>
    /\ led_calls = anchorOut
    /\ anchor = Word(1)
    /\ led_value = Word(1)
    /\ nTicks = 257

\* C17: whatever the duty word holds and however it is written, an invocation
\* that compares the counter value 0 tells the LED on; every stretch of 256
\* consecutive invocations, wherever it starts, has an ON tick; and in the
\* run loop a further invocation of the handler is always possible.
C17_NeverFullyOff ==
    /\ (TickDone /\ counter = Word(0)) => ToldOn
    /\ since \in {Period, Period + 1} => onSince
    /\ WindowDone => winOn >= 1
    /\ pc = "running" => ENABLED on_timer_tick

C17_Witness ==
    /\ TickDone
    /\ since = Period
    /\ anchor = Word(0)
    /\ WindowDone
    /\ winDuty = Word(0)
    /\ winOn = 1
    /\ onSince
    /\ counter = Word(0)
    /\ ToldOn
    /\ ENABLED on_timer_tick

\* C18: the k-th invocation after startup, k = 1..255, compares the counter
\* value k, never 0; the 256th is the first to compare 0.  So while the
\* invocations so far have all loaded the duty value 0, and fewer than 256
\* have run, none of them has told the LED on.
C18_FirstPeriod ==
    /\ nTicks \in 1..(Period - 1) => (counter = Word(nTicks) /\ counter # Word(0))
    /\ nTicks = Period => counter = Word(0)
    /\ (nTicks \in 1..(Period - 1) /\ winTicks = nTicks /\ winDuty = Word(0)) =>
            /\ winOn = 0
            /\ winOff = nTicks
            /\ TickDone => ToldOff
    /\ (nTicks = 1 /\ TickDone /\ duty_read = Word(0)) => ToldOff

C18_Witness ==
    /\ nTicks = Period - 1
    /\ winTicks = nTicks
    /\ winDuty = Word(0)
    /\ winOn = 0
    /\ winOff = Period - 1
    /\ counter = Word(255)
    /\ TickDone
    /\ ToldOff

\* C19: between two consecutive invocations that load the same duty value
\* d < 255 the output goes from ON to OFF only as the counter steps from d
\* to d + 1, and from OFF to ON only as it wraps from 255 to 0.  A period of
\* 256 invocations that all load d has its ON ticks at the counter values
\* 0..d, one OFF-to-ON edge and at most one ON-to-OFF edge (exactly one
\* when a tick went before the period).
C19_OnePulsePerPeriod ==
    /\ []((WindowDone /\ IsByte(winDuty) /\ Lo(winDuty) < 255) =>
            /\ winOnAt = {Word(k) : k \in 0..Lo(winDuty)}
            /\ winRises = 1
            /\ winFalls <= 1
            /\ nTicks > Period => winFalls = 1)
    /\ [][(/\ last' = "tick"
            /\ duty_read' = duty_read
            /\ IsByte(duty_read)
            /\ Lo(duty_read) < 255) =>
                /\ (ToldOn /\ led_calls' = <<LED_OFF(BLINK_LED)>>) =>
                        (counter = duty_read /\ counter' = Word(Lo(duty_read) + 1))
                /\ (ToldOff /\ led_calls' = <<LED_ON(BLINK_LED)>>) =>
                        (counter = Word(255) /\ counter' = Word(0))]_vars

C19_Witness ==
    /\ WindowDone
    /\ winDuty = Word(1)
    /\ winRises = 1
    /\ winFalls = 1
    /\ nTicks = MaxTicks
    /\ TickDone
    /\ prev_counter = Word(255)
    /\ ToldOn

====
